---- MODULE Spec2Model ----
(***************************************************************************)
(* Model of the server-monitoring dashboard (frontend/src/App.js): the     *)
(* App component's state (gpuData, loading, error, lastUpdated), its       *)
(* polling effect (fetchData on mount, setInterval(fetchData, 5000)), the  *)
(* manual refresh handler, the asynchronous completion of each request and *)
(* the three views the component renders.  The backend collector that      *)
(* answers /api/gpu-status is not part of the sources; the shape of its    *)
(* answers is taken from the specification (collect).                      *)
(***************************************************************************)
EXTENDS Integers, Sequences, FiniteSets, TLC

\* ------------------------------------------------------------------ bounds
\* Number of requests (axios.get calls) one behaviour may issue.
MaxFetches == 3
\* Number of timer periods the clock may run through.
MaxPeriods == 2
\* Number of collections the refresh cache may start.
MaxCollects == 2
\* Last instant of the collector's clock.
MaxClock == 2
\* Highest GPU temperature of the temperature sweep, in whole degrees.
MaxTemperature == 75
\* Highest usage of the percentage sweep, in whole percents.
MaxPercent == 85

\* -------------------------------------------------------- program constants
\* setInterval(fetchData, 5000): the polling period in milliseconds.
Interval == 5000

\* The clock advances in half periods, so that requests can complete before,
\* at and after the tick that follows them.
ClockStep == Interval \div 2
MaxTime == MaxPeriods * Interval

\* The value of `interval` once clearInterval has run / before setInterval.
NoTimer == -1

\* useState(null) for error, and the one message setError is given.
NoError == "null"
ConnectError == "Failed to connect to the server"

\* The independently collectible metrics of the collector.
Metrics == {"gpu", "cpu", "memory", "disk", "users"}
SystemMetrics == {"cpu", "memory", "disk"}

VARIABLES
    phase,        \* "constructed" (state initialised, effect not yet run), "mounted", "unmounted"
    gpuData,      \* useState: the held snapshot
    loading,      \* useState(true)
    error,        \* useState(null)
    lastUpdated,  \* useState(new Date()): time of construction, then of the last success
    inflight,     \* the pending axios.get promises: records [id, src]
    nextId,       \* number of requests issued so far
    now,          \* wall clock, ms since construction
    interval,     \* the timer of setInterval: time of its next expiry, or NoTimer
    ticks,        \* number of expiries of the timer so far
    clicks,       \* number of clicks on the refresh button so far
    mountedAt,    \* the time the effect ran
    rejected,     \* TRUE once a promise returned by fetchData has rejected
    lastOp,       \* the operation that produced the current state, and the error before it
    cache         \* the collector's refresh cache and the aggregator's cycle in progress

vars == <<phase, gpuData, loading, error, lastUpdated, inflight, nextId, now,
          interval, ticks, clicks, mountedAt, rejected, lastOp, cache>>

\* The state of the component.
app == <<phase, gpuData, loading, error, lastUpdated, inflight, nextId, now,
         interval, ticks, clicks, mountedAt, rejected>>

\* ------------------------------------------------------------ the collector
\* A JSON value that is a whole number or a string (a GPU's temperature and
\* power are numbers, or text when the tool reports none).
JsNumber(n) == [kind |-> "num", n |-> n, d |-> 1, s |-> ""]
JsString(str) == [kind |-> "str", n |-> 0, d |-> 1, s |-> str]

\* The strings of the model that are decimal numerals, with their values.
DecimalStrings == ("42" :> 42) @@ ("70" :> 70) @@ ("85" :> 85)

\* One GPU row as the dashboard reads it (id, name, memory_used, memory_total,
\* temperature, power_usage, user).  Values depend on the cycle so that two
\* cycles never produce the same record.
GpuRecord(cycle) ==
    [id |-> 0, name |-> "Tesla T4", memory_used |-> 1024 * cycle,
     memory_total |-> 16384, temperature |-> JsNumber(42),
     power_usage |-> JsNumber(70), user |-> "alice"]

\* A JavaScript number that need not be whole: the rational n / d, with d = 0
\* for what a division by zero or a failed parse leaves (NaN is 0 / 0,
\* Infinity is n / 0 with n > 0).
Num(n, d) == [n |-> n, d |-> d]
Zero == Num(0, 1)
NaN == Num(0, 0)
IsFinite(v) == v.d # 0
\* The greatest common divisor of two naturals.
RECURSIVE GCD(_, _)
GCD(a, b) == IF b = 0 THEN a ELSE GCD(b, a % b)
\* A finite number in lowest terms (n >= 0, d > 0).
Reduced(v) == Num(v.n \div GCD(v.n, v.d), v.d \div GCD(v.n, v.d))
\* a = b as finite numbers.
NumEq(a, b) == IsFinite(a) /\ IsFinite(b) /\ Reduced(a) = Reduced(b)

\* The sub-records of system_resources.  The first cycle reports a CPU usage
\* of 0, the later ones 12.5, 25, ...
CpuRecord(cycle) ==
    [usage_percent |-> Num(125 * (cycle - 1), 10), cores |-> Num(8, 1)]
MemoryRecord(cycle) ==
    [used |-> Num(2048 * cycle, 1), total |-> Num(16384, 1),
     usage_percent |-> Num(125 * cycle, 10)]
DiskRecord(cycle) ==
    [used |-> "50G", total |-> "100G", usage_percent |-> Num(30 * cycle, 1)]

UserResourceRecord(cycle) ==
    [username |-> "alice", cpu_usage |-> Num(60 * cycle, 1),
     memory_usage |-> Num(5 * cycle, 1),
     gpu_memory_usage |-> Num(1024, 1), storage_usage |-> Num(2, 1),
     sessions |-> <<[terminal |-> "pts/0", from |-> "10.0.0.1"]>>]

\* system_resources as a JSON object: a function whose domain is the set of
\* keys that are present.
SystemResources(cycle, failed) ==
    [k \in SystemMetrics \ failed |->
        CASE k = "cpu" -> CpuRecord(cycle)
          [] k = "memory" -> MemoryRecord(cycle)
          [] OTHER -> DiskRecord(cycle)]

\* Aggregator.collect(): one snapshot per cycle; a failed metric leaves its
\* field absent/empty and adds one failure descriptor naming the metric; the
\* other metrics are collected all the same.
collect(cycle, failed) ==
    [cycle |-> cycle,
     gpus |-> IF "gpu" \in failed THEN <<>> ELSE <<GpuRecord(cycle)>>,
     active_users |-> IF "users" \in failed THEN <<>> ELSE <<"alice">>,
     user_resources |-> IF "users" \in failed THEN <<>> ELSE <<UserResourceRecord(cycle)>>,
     system_resources |-> SystemResources(cycle, failed),
     failures |-> failed]

\* One row of the driver tool's output: the device index, the name, the two
\* memory fields as integers and the temperature and power as text.
RawGpuRow(index, used, total, temperature, power) ==
    [index |-> index, name |-> "Tesla T4", memory_used |-> used,
     memory_total |-> total, temperature |-> temperature, power |-> power,
     user |-> "alice"]

\* The GPU parser on a temperature or power field: the number, or the
\* sentinel "N/A" when the device reports none.
parseGpuField(text) ==
    IF text \in DOMAIN DecimalStrings
    THEN JsNumber(DecimalStrings[text])
    ELSE JsString("N/A")

\* The GPU parser: one record per row, identified by the device index; no
\* row is dropped.
parseGpus(rows) ==
    [i \in 1..Len(rows) |->
        [id |-> rows[i].index, name |-> rows[i].name,
         memory_used |-> rows[i].memory_used,
         memory_total |-> rows[i].memory_total,
         temperature |-> parseGpuField(rows[i].temperature),
         power_usage |-> parseGpuField(rows[i].power),
         user |-> rows[i].user]]

\* The outputs of the driver tool: one or two devices, the first one with
\* every combination of memory fields (a total of 0 included) and of numeric
\* and "N/A" temperature and power.
RawGpuOutputs ==
    {<<RawGpuRow(0, used, total, temperature, power)>> \o tail :
        used \in {0, 1024, 8192}, total \in {0, 16384},
        temperature \in {"42", "85", "N/A"}, power \in {"70", "N/A"},
        tail \in {<<>>, <<RawGpuRow(1, 1024, 16384, "42", "70")>>}}

\* The session lines of "who": user, terminal and origin ("N/A" when local).
WhoLines ==
    <<[user |-> "alice", terminal |-> "pts/0", from |-> "10.0.0.1"],
      [user |-> "bob", terminal |-> "pts/1", from |-> "N/A"],
      [user |-> "alice", terminal |-> "pts/2", from |-> "10.0.0.2"]>>

\* The lines of WhoLines at the positions of keep, in order.
RECURSIVE PickLines(_, _)
PickLines(n, keep) ==
    IF n = 0 THEN <<>>
    ELSE IF n \in keep
         THEN Append(PickLines(n - 1, keep), WhoLines[n])
         ELSE PickLines(n - 1, keep)

RawWhoOutputs == {PickLines(Len(WhoLines), keep) : keep \in SUBSET DOMAIN WhoLines}

\* The usernames of the session lines, each once, in order of appearance.
RECURSIVE Usernames(_)
Usernames(lines) ==
    IF lines = <<>> THEN <<>>
    ELSE LET rest == Usernames(SubSeq(lines, 1, Len(lines) - 1))
             last == lines[Len(lines)].user
         IN IF \E i \in DOMAIN rest : rest[i] = last
            THEN rest
            ELSE Append(rest, last)

\* The sessions of one user, in order of appearance.
SessionsOf(lines, username) ==
    LET own == SelectSeq(lines, LAMBDA l : l.user = username)
    IN [i \in 1..Len(own) |-> [terminal |-> own[i].terminal, from |-> own[i].from]]

\* The per-user usage measurement of one cycle, for the users it covers.
Usage(cycle, username) ==
    [cpu_usage |-> Num(60 * cycle, 1), memory_usage |-> Num(5 * cycle, 1),
     gpu_memory_usage |-> IF username = "alice" THEN Num(1024, 1) ELSE Zero,
     storage_usage |-> IF username = "alice" THEN Num(2, 1) ELSE Num(1, 2)]

\* One user record: the sessions merged under the username, with the usage
\* of the measurement; a user the measurement does not cover has zero CPU and
\* memory usage, and GPU memory and storage usage that are zero or left out
\* (absent).
UserRecord(cycle, lines, measured, absent, username) ==
    LET sessions == SessionsOf(lines, username)
        usage == Usage(cycle, username)
    IN IF username \in measured
       THEN [username |-> username, cpu_usage |-> usage.cpu_usage,
             memory_usage |-> usage.memory_usage,
             gpu_memory_usage |-> usage.gpu_memory_usage,
             storage_usage |-> usage.storage_usage, sessions |-> sessions]
       ELSE IF absent
       THEN [username |-> username, cpu_usage |-> Zero, memory_usage |-> Zero,
             sessions |-> sessions]
       ELSE [username |-> username, cpu_usage |-> Zero, memory_usage |-> Zero,
             gpu_memory_usage |-> Zero, storage_usage |-> Zero,
             sessions |-> sessions]

\* The users parser: the session lines grouped by username, one record per
\* user.
parseUsers(cycle, lines, measured, absent) ==
    LET names == Usernames(lines)
    IN [i \in 1..Len(names) |-> UserRecord(cycle, lines, measured, absent, names[i])]

\* A collector that also reports a usage_percent with each GPU record.
Reporting(gpus) ==
    [i \in 1..Len(gpus) |-> gpus[i] @@ ("usage_percent" :> Num(99, 1))]

\* Two devices of the same model.
TwoGpuRows ==
    <<RawGpuRow(0, 1024, 16384, "42", "70"), RawGpuRow(1, 8192, 16384, "85", "70")>>

\* The snapshots of one cycle in which no metric failed: every output of the
\* driver tool with one user, and two devices with every output of "who" and
\* every coverage of the usage measurement.
WideSnapshots(cycle) ==
    {[collect(cycle, {}) EXCEPT !.gpus = parseGpus(rows)] : rows \in RawGpuOutputs}
    \cup {[collect(cycle, {}) EXCEPT !.gpus = Reporting(parseGpus(rows))] :
              rows \in RawGpuOutputs}
    \cup {[collect(cycle, {}) EXCEPT
              !.gpus = parseGpus(TwoGpuRows),
              !.active_users = Usernames(lines),
              !.user_resources = parseUsers(cycle, lines, measured, absent)] :
              lines \in RawWhoOutputs, measured \in SUBSET {"alice", "bob"},
              absent \in BOOLEAN}

\* The top-level keys of the payload that the dashboard reads.
TopLevelKeys == {"gpus", "active_users", "user_resources", "system_resources"}

\* The payload without the keys of dropped.
Without(data, dropped) == [k \in (DOMAIN data) \ dropped |-> data[k]]

\* The snapshot of a cycle with the one device at every whole temperature.
TemperatureSweep(cycle) ==
    {[collect(cycle, {}) EXCEPT
        !.gpus = <<[GpuRecord(cycle) EXCEPT !.temperature = JsNumber(t)]>>] :
        t \in 0..MaxTemperature}

\* The snapshot of a cycle with every whole CPU usage.
PercentSweep(cycle) ==
    {[collect(cycle, {}) EXCEPT
        !.system_resources =
            [@ EXCEPT !["cpu"] = [@ EXCEPT !.usage_percent = Num(n, 1)]]] :
        n \in 0..MaxPercent}

\* Per-user amounts on both sides of every threshold of the users table.
StorageUsages == {Num(0 - 1, 1), Zero, Num(1, 2), Num(1, 1), Num(3, 2), Num(2, 1)}
GpuMemoryUsages == {Num(0 - 512, 1), Zero, Num(512, 1), Num(2048, 1)}
BarUsages == {Zero, Num(199, 2), Num(100, 1), Num(150, 1)}

\* The user records of the sweep: each amount in turn with the others
\* fixed, and records without a storage or a GPU memory usage.
SweepUsers ==
    LET u == [username |-> "alice", cpu_usage |-> Num(60, 1),
              memory_usage |-> Num(5, 1),
              sessions |-> <<[terminal |-> "pts/0", from |-> "10.0.0.1"]>>]
        full == u @@ [storage_usage |-> Num(2, 1), gpu_memory_usage |-> Num(1024, 1)]
    IN {[full EXCEPT !.storage_usage = st] : st \in StorageUsages}
       \cup {[full EXCEPT !.gpu_memory_usage = g] : g \in GpuMemoryUsages}
       \cup {[full EXCEPT !.cpu_usage = c, !.memory_usage = m] :
                 c \in BarUsages, m \in BarUsages}
       \cup {u @@ [gpu_memory_usage |-> Num(1024, 1)], u @@ [storage_usage |-> Num(2, 1)], u}

UserSweep(cycle) ==
    {[collect(cycle, {}) EXCEPT !.user_resources = <<u>>] : u \in SweepUsers}

\* Two partitions, their mount points held as split('/') yields them.
StorageDisks ==
    <<[mount_point |-> <<"", "data">>, used |-> "1.2T", total |-> "2.0T",
       available |-> "0.8T", usage_percent |-> Num(60, 1)],
      [mount_point |-> <<"", "mnt", "scratch">>, used |-> "450G", total |-> "500G",
       available |-> "50G", usage_percent |-> Num(90, 1)]>>

\* storage_summary: used and total summed over the partitions.
StorageSummary ==
    [used |-> "1.6T", total |-> "2.5T", available |-> "0.9T",
     usage_percent |-> Num(66, 1)]

\* system_resources with storage_disks absent, empty, or holding one or two
\* partitions, and with or without the summary.
StorageVariants(cycle) ==
    LET sr == SystemResources(cycle, {})
        disks == {[storage_disks |-> SubSeq(StorageDisks, 1, k)] : k \in 0..Len(StorageDisks)}
                     \cup {<<>>}
        summary == {[storage_summary |-> StorageSummary], <<>>}
    IN {(sr @@ d) @@ sm : d \in disks, sm \in summary}

\* user_resources absent, empty, or with users whose sessions have an origin
\* or 'N/A'.
UserVariants(cycle) ==
    {<<>>, [user_resources |-> <<>>]}
    \cup {[user_resources |-> parseUsers(cycle, lines, {"alice"}, FALSE)] :
             lines \in RawWhoOutputs \ {<<>>}}

SectionSweep(cycle) ==
    {Without(collect(cycle, {}), {"user_resources", "system_resources"})
        @@ [system_resources |-> sr] @@ users :
        sr \in StorageVariants(cycle), users \in UserVariants(cycle)}

\* The snapshots that exercise the thresholds and the conditions of the
\* dashboard.
DetailSnapshots(cycle) ==
    TemperatureSweep(cycle) \cup PercentSweep(cycle) \cup UserSweep(cycle)
        \cup SectionSweep(cycle)

\* The sets of failed metrics a cycle is answered with.
FailSets == (SUBSET SystemMetrics) \cup {{"gpu"}, {"gpu", "users"}}

\* What the remote call can end with: a rejection of the axios promise (no
\* answer, or an answer with an error status) or an answer carrying a payload.
Rejections == {"network_error", "http_error"}
Outcomes(f) ==
    [kind : Rejections, data : {<<>>}]
        \cup [kind : {"ok"}, data : {collect(f.id, F) : F \in FailSets}]

\* ------------------------------------------------------------ the component
\* useState({gpus: [], active_users: [], user_resources: [], system_resources: {}})
InitialGpuData ==
    [cycle |-> 0, gpus |-> <<>>, active_users |-> <<>>, user_resources |-> <<>>,
     system_resources |-> SystemResources(0, SystemMetrics), failures |-> {}]

\* A setter that copies the GPU list into the held object and keeps the rest.
setGpuDataMerge(prev, data) == [prev EXCEPT !.gpus = data.gpus]

\* setGpuData(response.data): the held snapshot becomes the payload.
setGpuData(prev, data) == data

\* fetchData without its catch branch: a rejection escapes to the caller.
fetchDataSettleNoCatch(st, outcome, t) ==
    IF outcome.kind = "ok"
    THEN [gpuData |-> outcome.data, lastUpdated |-> t, error |-> NoError,
          loading |-> FALSE, rejected |-> FALSE]
    ELSE [gpuData |-> st.gpuData, lastUpdated |-> st.lastUpdated,
          error |-> st.error, loading |-> FALSE, rejected |-> TRUE]

\* fetchData without setError(null) in its try branch.
fetchDataSettleKeepError(st, outcome, t) ==
    IF outcome.kind = "ok"
    THEN [gpuData |-> outcome.data, lastUpdated |-> t, error |-> st.error,
          loading |-> FALSE, rejected |-> FALSE]
    ELSE [gpuData |-> st.gpuData, lastUpdated |-> st.lastUpdated,
          error |-> ConnectError, loading |-> FALSE, rejected |-> FALSE]

\* fetchData that raises the error screen for an answer listing failures.
fetchDataSettleStrict(st, outcome, t) ==
    IF outcome.kind = "ok"
    THEN [gpuData |-> outcome.data, lastUpdated |-> t,
          error |-> IF outcome.data.failures = {} THEN NoError ELSE ConnectError,
          loading |-> FALSE, rejected |-> FALSE]
    ELSE [gpuData |-> st.gpuData, lastUpdated |-> st.lastUpdated,
          error |-> ConnectError, loading |-> FALSE, rejected |-> FALSE]

\* A fetchData whose catch branch also stamps the time.
fetchDataSettleStampAlways(st, outcome, t) ==
    IF outcome.kind = "ok"
    THEN [gpuData |-> outcome.data, lastUpdated |-> t, error |-> NoError,
          loading |-> FALSE, rejected |-> FALSE]
    ELSE [gpuData |-> st.gpuData, lastUpdated |-> t,
          error |-> ConnectError, loading |-> FALSE, rejected |-> FALSE]

\* A fetchData without the finally branch: loading is cleared on success only.
fetchDataSettleNoFinally(st, outcome, t) ==
    IF outcome.kind = "ok"
    THEN [gpuData |-> outcome.data, lastUpdated |-> t, error |-> NoError,
          loading |-> FALSE, rejected |-> FALSE]
    ELSE [gpuData |-> st.gpuData, lastUpdated |-> st.lastUpdated,
          error |-> ConnectError, loading |-> st.loading, rejected |-> FALSE]

\* The body of fetchData after `await axios.get(...)` has settled: the try
\* branch on an answer, the catch branch on a rejection, the finally branch
\* in both.  `rejected` is whether the promise fetchData returned rejects.
fetchDataSettle(st, outcome, t) ==
    IF outcome.kind = "ok"
    THEN [gpuData |-> setGpuData(st.gpuData, outcome.data),
          lastUpdated |-> t,
          error |-> NoError,
          loading |-> FALSE,
          rejected |-> FALSE]
    ELSE [gpuData |-> st.gpuData,
          lastUpdated |-> st.lastUpdated,
          error |-> ConnectError,
          loading |-> FALSE,
          rejected |-> FALSE]

State == [gpuData |-> gpuData, lastUpdated |-> lastUpdated, error |-> error,
          loading |-> loading, rejected |-> rejected]

\* The first half of fetchData: axios.get is called, whatever is pending.
fetchData(src) ==
    /\ nextId < MaxFetches
    /\ inflight' = inflight \cup {[id |-> nextId + 1, src |-> src]}
    /\ nextId' = nextId + 1

\* A component that tests error before loading.
ViewErrorFirst(ld, err) ==
    IF err # NoError THEN "error"
    ELSE IF ld THEN "spinner"
    ELSE "dashboard"

\* Which of the three returns of App() is taken.
View(ld, err) ==
    IF ld THEN "spinner"
    ELSE IF err # NoError THEN "error"
    ELSE "dashboard"

CurrentView == View(loading, error)

\* ------------------------------------------------------------ the dashboard
\* obj?.key is defined: the key is present in the JSON object.
Has(obj, key) == key \in DOMAIN obj

\* JavaScript truthiness of a number and of a string (the operands of ||).
TruthyNum(v) == v.n # 0
TruthyStr(str) == str # ""

\* What a JSX expression prints: a number, the string toFixed(1) returns
\* (the number rounded to tenths), or a string.
TxtNum(v) == [kind |-> "num", n |-> v.n, d |-> v.d, s |-> ""]
TxtFixed1(v) ==
    [kind |-> "fixed1", n |-> (2 * 10 * v.n + v.d) \div (2 * v.d), d |-> 10, s |-> ""]
TxtStr(str) == [kind |-> "str", n |-> 0, d |-> 1, s |-> str]
\* toFixed(0): the number rounded to a whole number.
TxtFixed0(v) ==
    [kind |-> "fixed0", n |-> (2 * v.n + v.d) \div (2 * v.d), d |-> 1, s |-> ""]
\* {value} for a JSON value that is a number or a string.
TxtVal(v) == IF v.kind = "str" THEN TxtStr(v.s) ELSE TxtNum(Num(v.n, v.d))

\* A parseInt that yields 0 for text that is no numeral.
parseIntOrZero(v) ==
    IF v.kind = "num" THEN Num(v.n \div v.d, 1)
    ELSE IF v.s \in DOMAIN DecimalStrings THEN Num(DecimalStrings[v.s], 1)
    ELSE Zero

\* parseInt(value): the whole part of a number, the value of a numeral, NaN
\* for any other text.
parseInt(v) ==
    IF v.kind = "num" THEN Num(v.n \div v.d, 1)
    ELSE IF v.s \in DOMAIN DecimalStrings THEN Num(DecimalStrings[v.s], 1)
    ELSE NaN

\* A colour function whose thresholds are inclusive.
getProgressColorInclusive(value) ==
    IF value.n <= 50 * value.d THEN "#4caf50"
    ELSE IF value.n <= 80 * value.d THEN "#ff9800"
    ELSE "#f44336"

\* getProgressColor(value)
getProgressColor(value) ==
    IF value.n < 50 * value.d THEN "#4caf50"
    ELSE IF value.n < 80 * value.d THEN "#ff9800"
    ELSE "#f44336"

\* obj?.key || 0 for a numeric key.
NumOrZero(obj, key) ==
    IF Has(obj, key) /\ TruthyNum(obj[key]) THEN obj[key] ELSE Zero

\* obj?.key || 0, printed.
TxtNumOrZero(obj, key) == TxtNum(NumOrZero(obj, key))

\* obj?.key || dflt for a string key, printed.
TxtStrOr(obj, key, dflt) ==
    IF Has(obj, key) /\ TruthyStr(obj[key]) THEN TxtStr(obj[key]) ELSE TxtStr(dflt)

\* system_resources.<key> when present, the empty object otherwise, so that
\* the reads below are those of the optional chaining `?.`.
Sub(sr, key) == IF Has(sr, key) THEN sr[key] ELSE <<>>

\* A CPU card that reads system_resources.cpu.usage_percent without `?.`.
CpuCardNoChaining(sr) ==
    IF ~Has(sr, "cpu")
    THEN [fault |-> TRUE, value |-> Zero, color |-> getProgressColor(Zero),
          text |-> TxtNum(Zero), detail |-> <<TxtStr("N/A")>>]
    ELSE [fault |-> FALSE,
          value |-> NumOrZero(sr.cpu, "usage_percent"),
          color |-> getProgressColor(NumOrZero(sr.cpu, "usage_percent")),
          text |-> TxtFixed1(sr.cpu.usage_percent),
          detail |-> <<TxtNum(sr.cpu.cores)>>]

\* The CPU card: the ring's value and colour, the printed percentage and the
\* core count.
CpuCard(sr) ==
    LET cpu == Sub(sr, "cpu") IN
    [fault |-> FALSE,
     value |-> NumOrZero(cpu, "usage_percent"),
     color |-> getProgressColor(NumOrZero(cpu, "usage_percent")),
     text |-> IF Has(cpu, "usage_percent")
              THEN TxtFixed1(cpu.usage_percent) ELSE TxtNum(Zero),
     detail |-> <<IF Has(cpu, "cores") /\ TruthyNum(cpu.cores)
                  THEN TxtNum(cpu.cores) ELSE TxtStr("N/A")>>]

\* The memory card: used / total default to 0.
MemoryCard(sr) ==
    LET memory == Sub(sr, "memory") IN
    [fault |-> FALSE,
     value |-> NumOrZero(memory, "usage_percent"),
     color |-> getProgressColor(NumOrZero(memory, "usage_percent")),
     text |-> IF Has(memory, "usage_percent")
              THEN TxtFixed1(memory.usage_percent) ELSE TxtNum(Zero),
     detail |-> <<TxtNumOrZero(memory, "used"), TxtNumOrZero(memory, "total")>>]

\* The disk card: the percentage is printed as it is, used / total default
\* to 'N/A'.
DiskCard(sr) ==
    LET disk == Sub(sr, "disk") IN
    [fault |-> FALSE,
     value |-> NumOrZero(disk, "usage_percent"),
     color |-> getProgressColor(NumOrZero(disk, "usage_percent")),
     text |-> TxtNumOrZero(disk, "usage_percent"),
     detail |-> <<TxtStrOr(disk, "used", "N/A"), TxtStrOr(disk, "total", "N/A")>>]

\* (used / total) * 100 in JavaScript arithmetic: 0 / 0 is NaN, n / 0 is
\* Infinity.
Percent(used, total) == Num(used * 100, total)

\* value * 1.1
TimesOnePointOne(v) == Num(v.n * 11, v.d * 10)

\* A card whose key is the GPU's name.
GpuCardKeyName(gpu) ==
    [key |-> gpu.name,
     name |-> gpu.name,
     memory |-> <<gpu.memory_used, gpu.memory_total>>,
     value |-> Percent(gpu.memory_used, gpu.memory_total),
     color |-> getProgressColor(Percent(gpu.memory_used, gpu.memory_total)),
     temperature |-> TxtVal(gpu.temperature),
     temperatureColor |-> getProgressColor(TimesOnePointOne(parseInt(gpu.temperature))),
     power_usage |-> TxtVal(gpu.power_usage),
     user |-> IF TruthyStr(gpu.user) THEN gpu.user ELSE "No user"]

\* A card whose bar shows a usage_percent field of the record (absent: 0).
GpuCardReported(gpu) ==
    [key |-> gpu.id,
     name |-> gpu.name,
     memory |-> <<gpu.memory_used, gpu.memory_total>>,
     value |-> NumOrZero(gpu, "usage_percent"),
     color |-> getProgressColor(NumOrZero(gpu, "usage_percent")),
     temperature |-> TxtVal(gpu.temperature),
     temperatureColor |-> getProgressColor(TimesOnePointOne(parseInt(gpu.temperature))),
     power_usage |-> TxtVal(gpu.power_usage),
     user |-> IF TruthyStr(gpu.user) THEN gpu.user ELSE "No user"]

\* One card of gpus.map: key, title, memory text, bar value and colour,
\* temperature with its colour, power and user.
GpuCard(gpu) ==
    [key |-> gpu.id,
     name |-> gpu.name,
     memory |-> <<gpu.memory_used, gpu.memory_total>>,
     value |-> Percent(gpu.memory_used, gpu.memory_total),
     color |-> getProgressColor(Percent(gpu.memory_used, gpu.memory_total)),
     temperature |-> TxtVal(gpu.temperature),
     temperatureColor |-> getProgressColor(TimesOnePointOne(parseInt(gpu.temperature))),
     power_usage |-> TxtVal(gpu.power_usage),
     user |-> IF TruthyStr(gpu.user) THEN gpu.user ELSE "No user"]

\* gpus.map((gpu) => <Grid ...>): one card per element, in order.
GpuCards(gpus) == [i \in 1..Len(gpus) |-> GpuCard(gpus[i])]

\* Math.min(value, 100)
MinHundred(v) == IF v.n > 100 * v.d THEN Num(100, 1) ELSE v

\* A printed amount with its unit.
Amount(txt, unit) == [txt |-> txt, unit |-> unit]

\* user.gpu_memory_usage > 0 ? `${(user.gpu_memory_usage / 1024).toFixed(1)}G` : 'None'
GpuMemoryText(user) ==
    IF Has(user, "gpu_memory_usage") /\ user.gpu_memory_usage.n > 0
    THEN Amount(TxtFixed1(Num(user.gpu_memory_usage.n, user.gpu_memory_usage.d * 1024)), "G")
    ELSE Amount(TxtStr("None"), "")

\* A storage cell that shows G from 1 on.
StorageTextFromOne(user) ==
    IF Has(user, "storage_usage") /\ user.storage_usage.n > 0
    THEN IF user.storage_usage.n >= user.storage_usage.d
         THEN Amount(TxtFixed1(user.storage_usage), "G")
         ELSE Amount(TxtFixed0(Num(user.storage_usage.n * 1024, user.storage_usage.d)), "MB")
    ELSE Amount(TxtStr("N/A"), "")

\* user.storage_usage > 0 ? (user.storage_usage > 1 ? `${...toFixed(1)}G`
\*                            : `${(... * 1024).toFixed(0)}MB`) : 'N/A'
StorageText(user) ==
    IF Has(user, "storage_usage") /\ user.storage_usage.n > 0
    THEN IF user.storage_usage.n > user.storage_usage.d
         THEN Amount(TxtFixed1(user.storage_usage), "G")
         ELSE Amount(TxtFixed0(Num(user.storage_usage.n * 1024, user.storage_usage.d)), "MB")
    ELSE Amount(TxtStr("N/A"), "")

\* {session.terminal} {session.from !== 'N/A' ? `(${session.from})` : ''}
SessionText(session) ==
    [terminal |-> session.terminal,
     origin |-> IF session.from # "N/A" THEN <<session.from>> ELSE <<>>]

\* A row that prints the usage amounts without testing them against 0.
UserRowNoGuard(user, index) ==
    [key |-> index,
     username |-> user.username,
     cpuBar |-> MinHundred(user.cpu_usage),
     cpuColor |-> getProgressColor(user.cpu_usage),
     cpuText |-> TxtNum(user.cpu_usage),
     memoryBar |-> MinHundred(user.memory_usage),
     memoryColor |-> getProgressColor(user.memory_usage),
     memoryText |-> TxtNum(user.memory_usage),
     gpuMemory |-> Amount(TxtFixed1(Num(NumOrZero(user, "gpu_memory_usage").n,
                                        NumOrZero(user, "gpu_memory_usage").d * 1024)), "G"),
     storage |-> Amount(TxtFixed1(NumOrZero(user, "storage_usage")), "G"),
     sessions |-> [i \in 1..Len(user.sessions) |-> SessionText(user.sessions[i])]]

\* One row of user_resources.map: the name, the CPU and memory bars, the GPU
\* memory and storage amounts and the sessions.
UserRow(user, index) ==
    [key |-> index,
     username |-> user.username,
     cpuBar |-> MinHundred(user.cpu_usage),
     cpuColor |-> getProgressColor(user.cpu_usage),
     cpuText |-> TxtNum(user.cpu_usage),
     memoryBar |-> MinHundred(user.memory_usage),
     memoryColor |-> getProgressColor(user.memory_usage),
     memoryText |-> TxtNum(user.memory_usage),
     gpuMemory |-> GpuMemoryText(user),
     storage |-> StorageText(user),
     sessions |-> [i \in 1..Len(user.sessions) |-> SessionText(user.sessions[i])]]

\* user_resources && user_resources.length > 0 ? <Table> : 'No active users'
UsersSection(data) ==
    IF Has(data, "user_resources") /\ Len(data.user_resources) > 0
    THEN [shown |-> "table",
          rows |-> [i \in 1..Len(data.user_resources) |->
                        UserRow(data.user_resources[i], i - 1)]]
    ELSE [shown |-> "No active users at the moment", rows |-> <<>>]

\* One card of storage_disks.map: the last component of the mount point
\* (held as the list mount_point.split('/') yields), the amounts and the bar.
StorageDiskCard(disk, index) ==
    [key |-> index,
     title |-> disk.mount_point[Len(disk.mount_point)],
     used |-> disk.used,
     total |-> disk.total,
     value |-> disk.usage_percent,
     color |-> getProgressColor(disk.usage_percent),
     available |-> disk.available]

\* The summary card: storage_summary?.used || '0G' and so on.
StorageSummaryCard(sr) ==
    [used |-> TxtStrOr(Sub(sr, "storage_summary"), "used", "0G"),
     total |-> TxtStrOr(Sub(sr, "storage_summary"), "total", "0G"),
     value |-> NumOrZero(Sub(sr, "storage_summary"), "usage_percent"),
     color |-> getProgressColor(NumOrZero(Sub(sr, "storage_summary"), "usage_percent")),
     available |-> TxtStrOr(Sub(sr, "storage_summary"), "available", "0G")]

\* A storage section drawn whenever storage_disks is present.
StorageSectionIfPresent(sr) ==
    IF Has(sr, "storage_disks")
    THEN [shown |-> TRUE,
          summary |-> <<StorageSummaryCard(sr)>>,
          disks |-> [i \in 1..Len(sr.storage_disks) |->
                        StorageDiskCard(sr.storage_disks[i], i - 1)]]
    ELSE [shown |-> FALSE, summary |-> <<>>, disks |-> <<>>]

\* system_resources.storage_disks && system_resources.storage_disks.length > 0
\* && (<Paper> summary card, one card per disk </Paper>)
StorageSection(sr) ==
    IF Has(sr, "storage_disks") /\ Len(sr.storage_disks) > 0
    THEN [shown |-> TRUE,
          summary |-> <<StorageSummaryCard(sr)>>,
          disks |-> [i \in 1..Len(sr.storage_disks) |->
                        StorageDiskCard(sr.storage_disks[i], i - 1)]]
    ELSE [shown |-> FALSE, summary |-> <<>>, disks |-> <<>>]

\* The third return of App(): the dashboard drawn from one snapshot.  The
\* destructuring of gpuData leaves an absent key undefined; reading a
\* property of an undefined system_resources, or calling map on an
\* undefined gpus, throws (fault), and nothing is drawn.
Dashboard(data) ==
    LET sr == IF Has(data, "system_resources") THEN data.system_resources ELSE <<>>
        cpu == CpuCard(sr)
        memory == MemoryCard(sr)
        disk == DiskCard(sr)
    IN [fault |-> \/ ~Has(data, "system_resources")
                  \/ ~Has(data, "gpus")
                  \/ cpu.fault \/ memory.fault \/ disk.fault,
        lastUpdated |-> lastUpdated,
        cpu |-> cpu,
        memory |-> memory,
        disk |-> disk,
        storage |-> StorageSection(sr),
        gpus |-> IF Has(data, "gpus") THEN GpuCards(data.gpus) ELSE <<>>,
        users |-> UsersSection(data)]

\* ---------------------------------------------------------- the refresh cache
\* The callers of the cache and the maxAge values they pass.
Callers == {"driver", "reader"}
MaxAges == {0, 1}

\* What the aggregator returns: the snapshot and, per metric, the error its
\* failure descriptor carries ("none" for a metric that did not fail).
NoSnapshot == [data |-> InitialGpuData, errors |-> [m \in Metrics |-> "none"]]
Present(snapshot) == snapshot.data.cycle # 0

\* Idle, holding no snapshot; no cycle of the aggregator in progress.
InitialCache ==
    [state |-> "Idle", snapshot |-> NoSnapshot, capturedAt |-> 0,
     isStale |-> FALSE, clock |-> 0, collects |-> 0, completed |-> 0,
     waiters |-> {}, session |-> "none",
     status |-> [m \in Metrics |-> "pending"], attempts |-> 0,
     maxAge |-> 0, returned |-> NoSnapshot, outcome |-> "none"]

\* Idle -> Refreshing: one Aggregator.collect() is invoked.
startCollect(c) ==
    [c EXCEPT !.state = "Refreshing", !.collects = @ + 1, !.session = "none",
              !.status = [m \in Metrics |-> "pending"], !.attempts = 0]

\* The cached snapshot exists and its age is within maxAge.
WithinMaxAge(c, maxAge) ==
    Present(c.snapshot) /\ c.clock - c.capturedAt <= maxAge

\* A getCurrent that starts a collection whenever the cache is Idle.
getCurrentIgnoreAge(c, caller, maxAge) ==
    IF c.state = "Idle"
    THEN [startCollect(c) EXCEPT !.waiters = {caller}, !.maxAge = maxAge,
                                 !.outcome = "started"]
    ELSE [c EXCEPT !.waiters = @ \cup {caller}, !.maxAge = maxAge,
                   !.outcome = "joined"]

\* getCurrent(maxAge): the cached snapshot at once if its age is within
\* maxAge; otherwise the caller awaits a collection, started now if none is
\* in flight.
getCurrent(c, caller, maxAge) ==
    IF WithinMaxAge(c, maxAge)
    THEN [c EXCEPT !.returned = c.snapshot, !.maxAge = maxAge,
                   !.outcome = "cached"]
    ELSE IF c.state = "Idle"
    THEN [startCollect(c) EXCEPT !.waiters = {caller}, !.maxAge = maxAge,
                                 !.outcome = "started"]
    ELSE [c EXCEPT !.waiters = @ \cup {caller}, !.maxAge = maxAge,
                   !.outcome = "joined"]

\* forceRefresh(): the caller awaits a collection, started now if none is in
\* flight.
forceRefresh(c, caller) ==
    IF c.state = "Idle"
    THEN [startCollect(c) EXCEPT !.waiters = {caller}, !.outcome = "started"]
    ELSE [c EXCEPT !.waiters = @ \cup {caller}, !.outcome = "joined"]

\* The aggregator establishes the remote session: one connection attempt.
openSession(c, reachable) ==
    [c EXCEPT !.session = IF reachable THEN "open" ELSE "unreachable",
              !.attempts = @ + 1]

\* An aggregator that issues every command whatever the session's state.
CommandsToRunAnyway(c) ==
    IF c.session = "none" THEN {}
    ELSE {m \in Metrics : c.status[m] = "pending"}

\* The commands the aggregator still issues in this cycle: those not yet
\* issued when the session is open, none when it is unreachable.
CommandsToRun(c) ==
    IF c.session = "open"
    THEN {m \in Metrics : c.status[m] = "pending"}
    ELSE {}

\* One command runner call per command still to run, each one more attempt
\* on the connection; the metrics of failed are those whose command fails.
runCommands(c, failed) ==
    [c EXCEPT !.status = [m \in Metrics |->
                            IF m \notin CommandsToRun(c) THEN c.status[m]
                            ELSE IF m \in failed \/ c.session # "open" THEN "failed"
                            ELSE "ok"],
              !.attempts = @ + Cardinality(CommandsToRun(c))]

\* The snapshot the aggregator returns: every metric failed with the
\* connection error when the session is unreachable, otherwise the metrics
\* whose command failed are left out and marked failed.
assemble(c) ==
    IF c.session = "unreachable"
    THEN [data |-> collect(c.collects, Metrics),
          errors |-> [m \in Metrics |-> "ConnectionError"]]
    ELSE [data |-> collect(c.collects, {m \in Metrics : c.status[m] = "failed"}),
          errors |-> [m \in Metrics |->
                        IF c.status[m] = "failed" THEN "CommandTimeout" ELSE "none"]]

\* Refreshing -> Idle: the result is published and handed to every waiter; a
\* failure of the session keeps the previous snapshot and marks it stale.
publish(c) ==
    IF c.session = "unreachable"
    THEN [c EXCEPT !.state = "Idle", !.completed = @ + 1, !.waiters = {},
                   !.isStale = TRUE,
                   !.returned = IF Present(c.snapshot) THEN c.snapshot ELSE assemble(c),
                   !.outcome = "collected"]
    ELSE [c EXCEPT !.state = "Idle", !.completed = @ + 1, !.waiters = {},
                   !.isStale = FALSE, !.snapshot = assemble(c),
                   !.capturedAt = c.clock, !.returned = assemble(c),
                   !.outcome = "collected"]

\* ---------------------------------------------------------------- actions
Op(op, id, kind) == [op |-> op, id |-> id, kind |-> kind, was |-> error]

Init ==
    /\ phase = "constructed"
    /\ gpuData = InitialGpuData
    /\ loading = TRUE
    /\ error = NoError
    /\ lastUpdated = 0
    /\ inflight = {}
    /\ nextId = 0
    /\ now = 0
    /\ interval = NoTimer
    /\ ticks = 0
    /\ clicks = 0
    /\ mountedAt = 0
    /\ rejected = FALSE
    /\ lastOp = Op("init", 0, "none")
    /\ cache = InitialCache

\* useEffect(() => { fetchData(); interval = setInterval(fetchData, 5000); ... }, [])
Mount ==
    /\ phase = "constructed"
    /\ phase' = "mounted"
    /\ fetchData("mount")
    /\ interval' = now + Interval
    /\ mountedAt' = now
    /\ lastOp' = Op("mount", nextId + 1, "none")
    /\ UNCHANGED <<cache, gpuData, loading, error, lastUpdated, now, ticks, clicks, rejected>>

\* A timer callback that skips the request while another one is pending.
TickSkipBusy ==
    /\ interval # NoTimer
    /\ now = interval
    /\ IF inflight = {}
       THEN fetchData("tick")
       ELSE UNCHANGED <<inflight, nextId>>
    /\ interval' = interval + Interval
    /\ ticks' = ticks + 1
    /\ lastOp' = Op("tick", nextId + 1, "none")
    /\ UNCHANGED <<cache, phase, gpuData, loading, error, lastUpdated, now, clicks,
                   mountedAt, rejected>>

\* An expiry of the timer: the callback is fetchData itself.  The timer is
\* armed exactly while the component is mounted (Mount arms it, Unmount
\* clears it).
Tick ==
    /\ interval # NoTimer
    /\ now = interval
    /\ fetchData("tick")
    /\ interval' = interval + Interval
    /\ ticks' = ticks + 1
    /\ lastOp' = Op("tick", nextId + 1, "none")
    /\ UNCHANGED <<cache, phase, gpuData, loading, error, lastUpdated, now, clicks,
                   mountedAt, rejected>>

\* handleRefresh: onClick of the refresh button, which the error view and the
\* dashboard render and the spinner view does not.
handleRefresh ==
    /\ phase = "mounted"
    /\ CurrentView # "spinner"
    /\ loading' = TRUE
    /\ fetchData("manual")
    /\ clicks' = clicks + 1
    /\ lastOp' = Op("refresh", nextId + 1, "none")
    /\ UNCHANGED <<cache, phase, gpuData, error, lastUpdated, now, interval, ticks,
                   mountedAt, rejected>>

\* The await of the pending request f settles with outcome.  The state
\* setters of a component that has been unmounted change nothing.
SettleOne(f, outcome) ==
    LET st == fetchDataSettle(State, outcome, now) IN
    /\ inflight' = inflight \ {f}
    /\ IF phase = "mounted"
       THEN /\ gpuData' = st.gpuData
            /\ lastUpdated' = st.lastUpdated
            /\ error' = st.error
            /\ loading' = st.loading
       ELSE UNCHANGED <<gpuData, lastUpdated, error, loading>>
    /\ rejected' = (rejected \/ st.rejected)
    /\ lastOp' = Op("settle", f.id, outcome.kind)
    /\ UNCHANGED <<cache, phase, nextId, now, interval, ticks, clicks, mountedAt>>

\* The await of one pending request settles: a rejection, or an answer with
\* any payload of the request's cycle.
Settle ==
    \E f \in inflight : \E outcome \in Outcomes(f) : SettleOne(f, outcome)

\* The outcomes that differ in how fetchData ends: a rejection, or an answer
\* with the payload in which no metric failed.
BriefOutcomes(f) ==
    {[kind |-> "network_error", data |-> <<>>],
     [kind |-> "ok", data |-> collect(f.id, {})]}

\* The await of one pending request settles with a rejection or an answer.
Complete ==
    \E f \in inflight : \E outcome \in BriefOutcomes(f) : SettleOne(f, outcome)

\* An effect whose cleanup does not clear the timer.
UnmountNoClear ==
    /\ phase = "mounted"
    /\ phase' = "unmounted"
    /\ lastOp' = Op("unmount", 0, "none")
    /\ UNCHANGED <<cache, gpuData, loading, error, lastUpdated, inflight, nextId, now,
                   interval, ticks, clicks, mountedAt, rejected>>

\* The cleanup of the effect: clearInterval(interval).
Unmount ==
    /\ phase = "mounted"
    /\ phase' = "unmounted"
    /\ interval' = NoTimer
    /\ lastOp' = Op("unmount", 0, "none")
    /\ UNCHANGED <<cache, gpuData, loading, error, lastUpdated, inflight, nextId, now,
                   ticks, clicks, mountedAt, rejected>>

\* Time passes while the component is mounted (the effect runs right after
\* the first render, and nothing reads the clock after the cleanup); the
\* armed timer fires before the clock moves past its expiry.
Advance ==
    /\ phase = "mounted"
    /\ now + ClockStep <= MaxTime
    /\ now < interval
    /\ now' = now + ClockStep
    /\ lastOp' = Op("advance", 0, "none")
    /\ UNCHANGED <<cache, phase, gpuData, loading, error, lastUpdated, inflight, nextId,
                   interval, ticks, clicks, mountedAt, rejected>>

\* A pending request is answered with a snapshot in which no metric failed.
Respond ==
    \E f \in inflight :
      \E data \in WideSnapshots(f.id) :
        LET st == fetchDataSettle(State, [kind |-> "ok", data |-> data], now) IN
        /\ phase = "mounted"
        /\ inflight' = inflight \ {f}
        /\ gpuData' = st.gpuData
        /\ lastUpdated' = st.lastUpdated
        /\ error' = st.error
        /\ loading' = st.loading
        /\ rejected' = (rejected \/ st.rejected)
        /\ lastOp' = Op("settle", f.id, "ok")
        /\ UNCHANGED <<cache, phase, nextId, now, interval, ticks, clicks, mountedAt>>

Next ==
    \/ Mount
    \/ Tick
    \/ handleRefresh
    \/ Settle
    \/ Unmount
    \/ Advance

Spec == Init /\ [][Next]_vars

\* Answers whose payload lacks any of the top-level keys.
SparseOutcomes(f) ==
    [kind : {"ok"},
     data : {Without(collect(f.id, F), dropped) :
                F \in FailSets, dropped \in SUBSET TopLevelKeys}]

\* A pending request is answered with a payload that lacks some keys.
RespondSparse ==
    \E f \in inflight : \E outcome \in SparseOutcomes(f) : SettleOne(f, outcome)

SparseNext ==
    \/ Mount
    \/ handleRefresh
    \/ RespondSparse

SparseSpec == Init /\ [][SparseNext]_vars

\* Answers that carry the snapshots of DetailSnapshots.
DetailOutcomes(f) == [kind : {"ok"}, data : DetailSnapshots(f.id)]

\* A pending request is answered with one of these snapshots.
RespondDetail ==
    \E f \in inflight : \E outcome \in DetailOutcomes(f) : SettleOne(f, outcome)

DetailNext ==
    \/ Mount
    \/ handleRefresh
    \/ RespondDetail

DetailSpec == Init /\ [][DetailNext]_vars

\* Every request that was started eventually completes: a pending await does
\* not stay pending forever.
LiveNext ==
    \/ Mount
    \/ Tick
    \/ handleRefresh
    \/ Complete
    \/ Unmount
    \/ Advance

LiveSpec == Init /\ [][LiveNext]_vars /\ WF_vars(Complete)

\* The component fed with every snapshot of WideSnapshots: it is mounted,
\* its requests are answered, and the refresh button is clicked.
RenderNext ==
    \/ Mount
    \/ handleRefresh
    \/ Respond

RenderSpec == Init /\ [][RenderNext]_vars

\* A caller reads the cache.
CallGetCurrent ==
    \E caller \in Callers, maxAge \in MaxAges :
      LET c == getCurrent(cache, caller, maxAge) IN
      /\ c.collects <= MaxCollects
      /\ cache' = c
      /\ lastOp' = Op("getCurrent", 0, c.outcome)
      /\ UNCHANGED app

\* The periodic driver, or a caller, forces a refresh.
CallForceRefresh ==
    \E caller \in Callers :
      LET c == forceRefresh(cache, caller) IN
      /\ c.collects <= MaxCollects
      /\ cache' = c
      /\ lastOp' = Op("forceRefresh", 0, c.outcome)
      /\ UNCHANGED app

\* The aggregator's cycle begins: the session is established, or cannot be.
OpenSession ==
    /\ cache.state = "Refreshing"
    /\ cache.session = "none"
    /\ \E reachable \in BOOLEAN : cache' = openSession(cache, reachable)
    /\ lastOp' = Op("openSession", 0, "none")
    /\ UNCHANGED app

\* The commands still to run are issued, independently of one another.
RunCommands ==
    /\ cache.state = "Refreshing"
    /\ CommandsToRun(cache) # {}
    /\ \E failed \in FailSets : cache' = runCommands(cache, failed)
    /\ lastOp' = Op("runCommands", 0, "none")
    /\ UNCHANGED app

\* Aggregator.collect() returns once no command is left to run.
Collected ==
    /\ cache.state = "Refreshing"
    /\ cache.session # "none"
    /\ CommandsToRun(cache) = {}
    /\ cache' = publish(cache)
    /\ lastOp' = Op("collected", 0, "none")
    /\ UNCHANGED app

\* The collector's clock advances.
CacheTick ==
    /\ cache.clock < MaxClock
    /\ cache' = [cache EXCEPT !.clock = @ + 1]
    /\ lastOp' = Op("clock", 0, "none")
    /\ UNCHANGED app

\* The collector alone: callers, the aggregator and the clock.
CacheNext ==
    \/ CallGetCurrent
    \/ CallForceRefresh
    \/ OpenSession
    \/ RunCommands
    \/ Collected
    \/ CacheTick

CacheSpec == Init /\ [][CacheNext]_vars

\* ------------------------------------------------------------------ claims
\* The payloads request number c can be answered with.
Payloads(c) == {collect(c, F) : F \in FailSets}

\* The requests the periodic driver (the effect and its timer) has issued.
PeriodicRequests == nextId - clicks

\* C1: single-flight - while one refresh is in flight every further refresh
\* request joins it, so at most one request is pending at any time.
C1_SingleFlight == Cardinality(inflight) <= 1

\* C2: staleness - after a refresh that failed at the connection level the
\* previously obtained snapshot is still held and is still what is served,
\* with the failure exposed in the separate error field.
C2_StaleSnapshotServed ==
    (/\ phase = "mounted"
     /\ lastOp.op = "settle"
     /\ lastOp.kind \in Rejections
     /\ gpuData # InitialGpuData)
    => (/\ gpuData \in Payloads(gpuData.cycle)
        /\ error = ConnectError
        /\ CurrentView = "dashboard")

\* C3: a failure never replaces the whole display with an error.
C3_NeverWholeDisplayError == phase = "mounted" => CurrentView # "error"

\* C4: the held snapshot is the initial one or exactly the payload of one
\* request, and it changes only by being replaced with the payload of the
\* request that has just been answered.
C4_WholesaleReplace ==
    /\ [](gpuData = InitialGpuData \/ \E c \in 1..nextId : gpuData \in Payloads(c))
    /\ [][gpuData' # gpuData =>
            /\ lastOp'.op = "settle"
            /\ lastOp'.kind = "ok"
            /\ gpuData' \in Payloads(lastOp'.id)]_vars

C4_Witness ==
    /\ lastOp.op = "settle"
    /\ lastOp.kind = "ok"
    /\ lastOp.id = 2
    /\ gpuData = collect(2, {"cpu"})
    /\ lastUpdated > 0

\* C5: requesting the snapshot never raises - no promise returned by
\* fetchData rejects, and a rejection of the remote call ends in the error
\* field, whichever rejection it is.
C5_NeverRaises ==
    /\ ~rejected
    /\ (phase = "mounted" /\ lastOp.op = "settle" /\ lastOp.kind \in Rejections)
          => (error = ConnectError /\ ~loading)

C5_Witness ==
    /\ phase = "mounted"
    /\ lastOp.op = "settle"
    /\ lastOp.kind = "http_error"
    /\ error = ConnectError
    /\ ~rejected

\* C6: a new collection is started only from Idle (nothing in flight).
C6_StartOnlyFromIdle == [][nextId' # nextId => inflight = {}]_vars

\* C7: one refresh is requested at mount and exactly one more on every expiry
\* of the single 5000 ms timer while mounted, whether or not the previous
\* request has completed.
C7_PollingCadence ==
    /\ phase = "constructed" => (nextId = 0 /\ interval = NoTimer)
    /\ phase = "mounted" =>
          /\ PeriodicRequests = 1 + ticks
          /\ interval = mountedAt + (ticks + 1) * Interval
          /\ now <= interval
          /\ (now = interval /\ nextId < MaxFetches) => ENABLED Tick

C7_Witness ==
    /\ phase = "mounted"
    /\ lastOp.op = "tick"
    /\ ticks = 1
    /\ now = mountedAt + Interval
    /\ Cardinality(inflight) = 2
    /\ clicks = 0

\* C8: a failed refresh does not stop polling (the timer stays armed and the
\* next expiry requests again), and a later successful refresh clears the
\* error and publishes its payload.
C8_FailureOnlyForItsCycle ==
    (phase = "mounted" /\ lastOp.op = "settle") =>
        /\ interval = mountedAt + (ticks + 1) * Interval
        /\ (now = interval /\ nextId < MaxFetches) => ENABLED Tick
        /\ lastOp.kind = "ok" =>
              (error = NoError /\ gpuData \in Payloads(lastOp.id))

C8_Witness ==
    /\ phase = "mounted"
    /\ lastOp.op = "settle"
    /\ lastOp.kind = "ok"
    /\ lastOp.was = ConnectError
    /\ lastOp.id = 2
    /\ error = NoError
    /\ gpuData = collect(2, {})
    /\ clicks = 0

\* C9: partial failure isolation - a cycle in which only the GPU metric fails
\* yields a snapshot with all of system_resources, the user records, no GPU
\* and the one failure descriptor "gpu"; the dashboard accepts it: no error,
\* the three system cards and the users table drawn from it, no GPU card.
C9_PartialFailureIsolation ==
    /\ \A c \in 1..MaxFetches :
          LET snap == collect(c, {"gpu"}) IN
          /\ DOMAIN snap.system_resources = SystemMetrics
          /\ Len(snap.user_resources) > 0
          /\ snap.gpus = <<>>
          /\ snap.failures = {"gpu"}
    /\ (/\ phase = "mounted"
        /\ lastOp.op = "settle"
        /\ lastOp.kind = "ok"
        /\ gpuData = collect(lastOp.id, {"gpu"}))
       => /\ error = NoError
          /\ CurrentView = "dashboard"
          /\ LET d == Dashboard(gpuData)
                 sr == gpuData.system_resources
             IN /\ ~d.fault
                /\ d.gpus = <<>>
                /\ NumEq(d.cpu.value, sr.cpu.usage_percent)
                /\ NumEq(d.memory.value, sr.memory.usage_percent)
                /\ NumEq(d.disk.value, sr.disk.usage_percent)
                /\ d.users.shown = "table"
                /\ Len(d.users.rows) = Len(gpuData.user_resources)
                /\ \A i \in 1..Len(d.users.rows) :
                      d.users.rows[i].username = gpuData.user_resources[i].username

C9_Witness ==
    /\ phase = "mounted"
    /\ lastOp.op = "settle"
    /\ lastOp.kind = "ok"
    /\ gpuData = collect(2, {"gpu"})
    /\ CurrentView = "dashboard"
    /\ Dashboard(gpuData).gpus = <<>>
    /\ Dashboard(gpuData).users.shown = "table"
    /\ Dashboard(gpuData).memory.text = TxtFixed1(Num(250, 10))

\* C10: cpu, memory and disk are independently optional - whichever of them
\* the displayed snapshot lacks, the dashboard is drawn without a fault, each
\* present one with its own values and each absent one with its defaults.
C10_IndependentlyOptional ==
    (phase = "mounted" /\ CurrentView = "dashboard") =>
        LET d == Dashboard(gpuData)
            sr == gpuData.system_resources
        IN /\ ~d.fault
           /\ IF "cpu" \in DOMAIN sr
              THEN /\ NumEq(d.cpu.value, sr.cpu.usage_percent)
                   /\ d.cpu.text = TxtFixed1(sr.cpu.usage_percent)
                   /\ d.cpu.detail = <<TxtNum(sr.cpu.cores)>>
              ELSE /\ NumEq(d.cpu.value, Zero)
                   /\ d.cpu.text = TxtNum(Zero)
                   /\ d.cpu.detail = <<TxtStr("N/A")>>
           /\ IF "memory" \in DOMAIN sr
              THEN /\ NumEq(d.memory.value, sr.memory.usage_percent)
                   /\ d.memory.text = TxtFixed1(sr.memory.usage_percent)
                   /\ d.memory.detail = <<TxtNum(sr.memory.used), TxtNum(sr.memory.total)>>
              ELSE /\ NumEq(d.memory.value, Zero)
                   /\ d.memory.text = TxtNum(Zero)
                   /\ d.memory.detail = <<TxtNum(Zero), TxtNum(Zero)>>
           /\ IF "disk" \in DOMAIN sr
              THEN /\ NumEq(d.disk.value, sr.disk.usage_percent)
                   /\ d.disk.text = TxtNum(sr.disk.usage_percent)
                   /\ d.disk.detail = <<TxtStr(sr.disk.used), TxtStr(sr.disk.total)>>
              ELSE /\ NumEq(d.disk.value, Zero)
                   /\ d.disk.text = TxtNum(Zero)
                   /\ d.disk.detail = <<TxtStr("N/A"), TxtStr("N/A")>>

C10_Witness ==
    /\ phase = "mounted"
    /\ CurrentView = "dashboard"
    /\ gpuData = collect(2, {"cpu", "disk"})
    /\ Dashboard(gpuData).memory.detail = <<TxtNum(Num(4096, 1)), TxtNum(Num(16384, 1))>>
    /\ Dashboard(gpuData).cpu.detail = <<TxtStr("N/A")>>
    /\ Dashboard(gpuData).disk.text = TxtNum(Zero)
    /\ ~Dashboard(gpuData).fault

\* C11: shutdown is deterministic - polling is driven by the one timer, and
\* once the cleanup has run the timer is cleared and no step starts a
\* request any more: the only steps left are completions of pending requests.
C11_DeterministicShutdown ==
    /\ phase = "mounted" => interval # NoTimer
    /\ phase = "unmounted" =>
          /\ interval = NoTimer
          /\ ~ENABLED Tick
          /\ ~ENABLED handleRefresh
          /\ ~ENABLED Mount
          /\ lastOp.op \in {"unmount", "settle"}
          /\ PeriodicRequests = 1 + ticks

C11_Witness ==
    /\ phase = "unmounted"
    /\ lastOp.op = "settle"
    /\ inflight = {}
    /\ ticks = 1
    /\ nextId = 2
    /\ interval = NoTimer

\* C12: a request whose requester goes away (the component is unmounted)
\* while it is in flight still completes, and its answer becomes the current
\* snapshot.
C12_CancelledRefreshPopulates ==
    (phase = "unmounted" /\ lastOp.op = "settle" /\ lastOp.kind = "ok")
        => gpuData \in Payloads(lastOp.id)

\* C20: exactly one of three views is shown, by priority spinner, error,
\* dashboard; loading is TRUE at first, becomes TRUE only by handleRefresh
\* (never by a tick) and becomes FALSE only when a request settles.
C20_ViewPriority ==
    /\ [](/\ CurrentView \in {"spinner", "error", "dashboard"}
          /\ loading => CurrentView = "spinner"
          /\ (~loading /\ error # NoError) => CurrentView = "error"
          /\ (~loading /\ error = NoError) => CurrentView = "dashboard"
          /\ phase = "constructed" => loading
          /\ lastOp.op = "refresh" => loading)
    /\ [][(~loading /\ loading') => lastOp'.op = "refresh"]_vars
    /\ [][(loading /\ ~loading') => lastOp'.op = "settle"]_vars
    /\ [][lastOp'.op = "tick" => loading' = loading]_vars

C20_Witness ==
    /\ phase = "mounted"
    /\ lastOp.op = "refresh"
    /\ loading
    /\ error # NoError
    /\ CurrentView = "spinner"

\* The snapshot on display and what is drawn from it.
Shown == CurrentView = "dashboard" /\ lastOp.op = "settle"
Cards == Dashboard(gpuData).gpus
Rows == Dashboard(gpuData).users.rows

\* C15: for every GPU record the bar shows memory_used / memory_total * 100
\* computed from the record's own two fields, whether or not the record
\* carries a reported usage_percent; 1024 of 16384 gives 6.25.
C15_GpuUsageDerived ==
    Shown =>
      /\ Len(Cards) = Len(gpuData.gpus)
      /\ \A i \in DOMAIN gpuData.gpus :
            LET gpu == gpuData.gpus[i] IN
            /\ gpu.memory_total # 0 =>
                  NumEq(Cards[i].value, Num(gpu.memory_used * 100, gpu.memory_total))
            /\ (gpu.memory_used = 1024 /\ gpu.memory_total = 16384) =>
                  NumEq(Cards[i].value, Num(625, 100))

C15_Witness ==
    /\ Shown
    /\ Has(gpuData.gpus[1], "usage_percent")
    /\ gpuData.gpus[1].memory_used = 1024
    /\ gpuData.gpus[1].memory_total = 16384
    /\ NumEq(Cards[1].value, Num(625, 100))

\* C16: a derived usage percentage is used / total * 100 with a total of 0
\* giving 0: 8192 of 16384 gives 50, and no bar value is NaN or infinite.
C16_ZeroTotalDefended ==
    Shown =>
      \A i \in DOMAIN gpuData.gpus :
        LET gpu == gpuData.gpus[i] IN
        /\ IsFinite(Cards[i].value)
        /\ gpu.memory_total = 0 => NumEq(Cards[i].value, Zero)
        /\ (gpu.memory_used = 8192 /\ gpu.memory_total = 16384) =>
              NumEq(Cards[i].value, Num(50, 1))

\* C17: within the snapshot on display no two GPU records have the same id
\* and no two user records the same username, and no two GPU cards and no two
\* user rows have the same key.
C17_UniqueKeys ==
    Shown =>
      /\ \A i, j \in DOMAIN gpuData.gpus :
            i # j => gpuData.gpus[i].id # gpuData.gpus[j].id
      /\ \A i, j \in DOMAIN gpuData.user_resources :
            i # j => gpuData.user_resources[i].username # gpuData.user_resources[j].username
      /\ \A i, j \in DOMAIN Cards : i # j => Cards[i].key # Cards[j].key
      /\ \A i, j \in DOMAIN Rows : i # j => Rows[i].key # Rows[j].key

C17_Witness ==
    /\ Shown
    /\ Len(Cards) = 2
    /\ Cards[1].name = Cards[2].name
    /\ Cards[1].key # Cards[2].key
    /\ Len(Rows) = 2
    /\ Len(Rows[1].sessions) = 2
    /\ Rows[1].key # Rows[2].key

\* C18: for every output of "who" and every coverage of the usage measurement
\* the snapshot on display was built from, each user of a session line has
\* exactly one row, the row lists all of that user's sessions and no other,
\* and the row of a user without a measurement shows 'None' for GPU memory
\* and 'N/A' for storage.
C18_UsersMerged ==
    Shown =>
      \A lines \in RawWhoOutputs, measured \in SUBSET {"alice", "bob"}, absent \in BOOLEAN :
        gpuData.user_resources = parseUsers(gpuData.cycle, lines, measured, absent) =>
          /\ \A k \in DOMAIN lines :
                /\ Cardinality({i \in DOMAIN Rows : Rows[i].username = lines[k].user}) = 1
                /\ \E i \in DOMAIN Rows :
                      /\ Rows[i].username = lines[k].user
                      /\ \E m \in DOMAIN Rows[i].sessions :
                            Rows[i].sessions[m] = SessionText(lines[k])
                      /\ Len(Rows[i].sessions) =
                            Cardinality({m \in DOMAIN lines : lines[m].user = lines[k].user})
          /\ \A i \in DOMAIN Rows :
                /\ \E k \in DOMAIN lines : lines[k].user = Rows[i].username
                /\ Rows[i].username \notin measured =>
                      /\ Rows[i].gpuMemory = Amount(TxtStr("None"), "")
                      /\ Rows[i].storage = Amount(TxtStr("N/A"), "")

C18_Witness ==
    /\ Shown
    /\ gpuData.user_resources = parseUsers(gpuData.cycle, WhoLines, {"bob"}, TRUE)
    /\ Len(Rows) = 2
    /\ Rows[1].username = "alice"
    /\ Len(Rows[1].sessions) = 2
    /\ ~Has(gpuData.user_resources[1], "storage_usage")
    /\ Rows[1].gpuMemory.txt = TxtStr("None")
    /\ Rows[1].storage.txt = TxtStr("N/A")
    /\ Rows[2].storage.unit = "MB"

\* C19: a device whose temperature or power is "N/A" keeps its record, with
\* the sentinel in that field, and its card is drawn: the field shows the
\* sentinel and the colour of a non-numeric temperature is that of the last
\* branch of getProgressColor.
C19_NotAvailableTolerated ==
    Shown =>
      /\ ~Dashboard(gpuData).fault
      /\ Len(Cards) = Len(gpuData.gpus)
      /\ \A rows \in RawGpuOutputs :
            gpuData.gpus = parseGpus(rows) =>
              /\ Len(gpuData.gpus) = Len(rows)
              /\ \A i \in DOMAIN rows :
                    /\ gpuData.gpus[i].id = rows[i].index
                    /\ rows[i].temperature = "N/A" =>
                          gpuData.gpus[i].temperature = JsString("N/A")
                    /\ rows[i].power = "N/A" =>
                          gpuData.gpus[i].power_usage = JsString("N/A")
      /\ \A i \in DOMAIN gpuData.gpus :
            LET gpu == gpuData.gpus[i] IN
            /\ Cards[i].key = gpu.id
            /\ gpu.temperature.kind = "str" =>
                  /\ Cards[i].temperature = TxtStr(gpu.temperature.s)
                  /\ gpu.temperature.s \notin DOMAIN DecimalStrings =>
                        Cards[i].temperatureColor = "#f44336"
            /\ gpu.power_usage.kind = "str" =>
                  Cards[i].power_usage = TxtStr(gpu.power_usage.s)

C19_Witness ==
    /\ Shown
    /\ Len(Cards) = 2
    /\ gpuData.gpus[1].temperature = JsString("N/A")
    /\ gpuData.gpus[1].power_usage = JsNumber(70)
    /\ Cards[1].temperatureColor = "#f44336"
    /\ Cards[2].temperatureColor = "#4caf50"

\* The collections in flight.
InFlight == cache.collects - cache.completed

\* C13: a getCurrent(maxAge) that finds a snapshot whose age is within maxAge
\* returns that snapshot at once and starts no collection; one that finds no
\* snapshot, or an older one, starts a collection only if none is in flight,
\* and leaves exactly one in flight.
C13_GetCurrentWithinMaxAge ==
    /\ [](InFlight = IF cache.state = "Refreshing" THEN 1 ELSE 0)
    /\ [][lastOp'.op = "getCurrent" =>
            IF WithinMaxAge(cache, cache'.maxAge)
            THEN /\ cache'.returned = cache.snapshot
                 /\ cache'.collects = cache.collects
                 /\ cache'.state = cache.state
                 /\ cache'.waiters = cache.waiters
            ELSE /\ cache'.collects = cache.collects + (IF cache.state = "Idle" THEN 1 ELSE 0)
                 /\ cache'.state = "Refreshing"
                 /\ cache'.waiters # {}
                 /\ cache'.snapshot = cache.snapshot]_vars

C13_Witness ==
    /\ lastOp.op = "getCurrent"
    /\ lastOp.kind = "cached"
    /\ cache.state = "Idle"
    /\ cache.collects = 1
    /\ cache.maxAge = 1
    /\ cache.clock - cache.capturedAt = 1
    /\ cache.returned = cache.snapshot
    /\ Present(cache.returned)

\* C14: in a cycle whose session cannot be established the only connection
\* attempt is the one that failed: no command is issued, and the snapshot
\* returned marks every metric failed, all with the connection error.
C14_ShortCircuit ==
    (cache.session = "unreachable") =>
      /\ cache.attempts = 1
      /\ \A m \in Metrics : cache.status[m] = "pending"
      /\ ~ENABLED RunCommands
      /\ assemble(cache).data.failures = Metrics
      /\ \A m \in Metrics : assemble(cache).errors[m] = "ConnectionError"
      /\ (cache.state = "Idle" /\ ~Present(cache.snapshot)) =>
            cache.returned = assemble(cache)

C14_Witness ==
    /\ lastOp.op = "collected"
    /\ cache.session = "unreachable"
    /\ cache.attempts = 1
    /\ cache.completed = 1
    /\ cache.returned.errors = [m \in Metrics |-> "ConnectionError"]

\* C21: a fetch that fails changes error and loading and leaves the held
\* snapshot and lastUpdated as they were; a fetch that succeeds stores the
\* payload, sets lastUpdated to the time of completion and clears error;
\* nothing else changes lastUpdated, and a dashboard is only drawn after a
\* success, so 'Last updated' is the completion time of the latest success.
C21_FailureFrame ==
    /\ [][(lastOp'.op = "settle" /\ phase = "mounted") =>
            IF lastOp'.kind = "ok"
            THEN /\ gpuData' \in Payloads(lastOp'.id)
                 /\ lastUpdated' = now
                 /\ lastUpdated' >= lastUpdated
                 /\ error' = NoError
            ELSE /\ gpuData' = gpuData
                 /\ lastUpdated' = lastUpdated
                 /\ error' = ConnectError
                 /\ ~loading']_vars
    /\ [][lastUpdated' # lastUpdated =>
            (lastOp'.op = "settle" /\ lastOp'.kind = "ok" /\ lastUpdated' = now)]_vars
    /\ [](CurrentView = "dashboard" => gpuData.cycle # 0)

C21_Witness ==
    /\ phase = "mounted"
    /\ lastOp.op = "settle"
    /\ lastOp.kind # "ok"
    /\ gpuData.cycle = 1
    /\ lastUpdated < now
    /\ error = ConnectError
    /\ ~loading

\* C22: provided every started fetch eventually completes, a component that
\* shows the spinner (after the mount or after a click on refresh)
\* eventually stops showing it: loading becomes false, unless the component
\* is unmounted first and shows nothing.
C22_LoadingEnds ==
    (phase = "mounted" /\ loading) ~> (~loading \/ phase = "unmounted")

C22_Witness ==
    /\ phase = "mounted"
    /\ clicks = 1
    /\ lastOp.op = "settle"
    /\ lastOp.kind # "ok"
    /\ ~loading
    /\ inflight = {}

\* C23: while the request started by a click on refresh is pending, the
\* spinner is shown: no other request's completion ends the loading state.
C23_SpinnerUntilOwnResponse ==
    (phase = "mounted" /\ \E f \in inflight : f.src = "manual") => loading

\* C24: once the answer of a later-started request has been stored, the
\* completion of an earlier-started request changes neither the held
\* snapshot nor the error status.
C24_NeverBackwards ==
    [][(lastOp'.op = "settle" /\ phase = "mounted" /\ lastOp'.id < gpuData.cycle) =>
          (gpuData' = gpuData /\ error' = error)]_vars

\* C25: the dashboard drawn from a successful response has no fault,
\* whichever of the top-level keys the payload carries.
C25_AnyKeysRender ==
    (CurrentView = "dashboard" /\ lastOp.op = "settle") => ~Dashboard(gpuData).fault

\* C26: the colour of a bar is green below 50, orange from 50 to below 80
\* and red from 80 on, and nothing else; the colour of a whole GPU
\* temperature t, taken at t * 1.1, is green up to 45, orange from 46 to 72
\* and red from 73.
C26_ColorThresholds ==
    Shown =>
      LET cpu == Dashboard(gpuData).cpu IN
      /\ cpu.color \in {"#4caf50", "#ff9800", "#f44336"}
      /\ cpu.color = "#4caf50" <=> cpu.value.n < 50 * cpu.value.d
      /\ cpu.color = "#ff9800" <=>
            (50 * cpu.value.d <= cpu.value.n /\ cpu.value.n < 80 * cpu.value.d)
      /\ cpu.color = "#f44336" <=> cpu.value.n >= 80 * cpu.value.d
      /\ \A i \in DOMAIN gpuData.gpus :
            LET t == gpuData.gpus[i].temperature IN
            t.kind = "num" =>
              Cards[i].temperatureColor =
                IF t.n <= 45 THEN "#4caf50"
                ELSE IF t.n <= 72 THEN "#ff9800"
                ELSE "#f44336"

C26_Witness ==
    /\ Shown
    /\ Dashboard(gpuData).cpu.value = Num(50, 1)
    /\ Dashboard(gpuData).cpu.color = "#ff9800"
    /\ Cards[1].temperatureColor = "#4caf50"

\* C27: in every user row the storage cell shows G for a usage above 1, MB
\* (the usage times 1024) for a usage above 0 and up to 1, and 'N/A' for a
\* usage that is 0, negative or absent; the GPU memory cell shows G (the
\* usage over 1024) for a usage above 0 and 'None' otherwise; the CPU and
\* memory bars show the smaller of the usage and 100.
C27_UserFormatting ==
    (Shown /\ Has(gpuData, "user_resources")) =>
      \A i \in DOMAIN gpuData.user_resources :
        LET u == gpuData.user_resources[i]
            r == Rows[i]
        IN
        /\ IF Has(u, "storage_usage") /\ u.storage_usage.n > u.storage_usage.d
           THEN /\ r.storage.unit = "G"
                /\ r.storage.txt.kind = "fixed1"
                /\ r.storage.txt.n = (20 * u.storage_usage.n + u.storage_usage.d)
                                          \div (2 * u.storage_usage.d)
           ELSE IF Has(u, "storage_usage") /\ u.storage_usage.n > 0
           THEN /\ r.storage.unit = "MB"
                /\ r.storage.txt.kind = "fixed0"
                /\ r.storage.txt.n = (1024 * u.storage_usage.n) \div u.storage_usage.d
           ELSE r.storage = Amount(TxtStr("N/A"), "")
        /\ IF Has(u, "gpu_memory_usage") /\ u.gpu_memory_usage.n > 0
           THEN /\ r.gpuMemory.unit = "G"
                /\ r.gpuMemory.txt.kind = "fixed1"
                /\ r.gpuMemory.txt.n * 1024 = 10 * u.gpu_memory_usage.n
           ELSE r.gpuMemory = Amount(TxtStr("None"), "")
        /\ r.cpuBar.n <= 100 * r.cpuBar.d
        /\ r.memoryBar.n <= 100 * r.memoryBar.d
        /\ r.cpuBar = IF u.cpu_usage.n > 100 * u.cpu_usage.d THEN Num(100, 1) ELSE u.cpu_usage
        /\ r.memoryBar =
              IF u.memory_usage.n > 100 * u.memory_usage.d THEN Num(100, 1) ELSE u.memory_usage

C27_Witness ==
    /\ Shown
    /\ Len(Rows) = 1
    /\ Has(gpuData.user_resources[1], "storage_usage")
    /\ gpuData.user_resources[1].storage_usage = Num(1, 1)
    /\ Rows[1].storage.unit = "MB"
    /\ Rows[1].storage.txt.n = 1024
    /\ Rows[1].gpuMemory.unit = "G"
    /\ gpuData.user_resources[1].cpu_usage = Num(60, 1)

\* C28: the storage section, with its summary card, is drawn exactly when
\* storage_disks is present and not empty, with one card per partition in
\* the snapshot's order; the users table is drawn exactly when
\* user_resources is present and not empty, and the 'No active users'
\* message otherwise; a session's origin is drawn, in parentheses, exactly
\* when it differs from 'N/A'.
C28_SectionVisibility ==
    Shown =>
      LET sr == gpuData.system_resources
          storage == Dashboard(gpuData).storage
          users == Dashboard(gpuData).users
      IN
      /\ storage.shown <=> (Has(sr, "storage_disks") /\ Len(sr.storage_disks) > 0)
      /\ storage.shown =>
            /\ Len(storage.summary) = 1
            /\ Len(storage.disks) = Len(sr.storage_disks)
            /\ \A i \in DOMAIN sr.storage_disks :
                  /\ storage.disks[i].used = sr.storage_disks[i].used
                  /\ storage.disks[i].title =
                        sr.storage_disks[i].mount_point[Len(sr.storage_disks[i].mount_point)]
      /\ ~storage.shown => (storage.summary = <<>> /\ storage.disks = <<>>)
      /\ users.shown = "table" <=>
            (Has(gpuData, "user_resources") /\ Len(gpuData.user_resources) > 0)
      /\ users.shown # "table" =>
            (users.shown = "No active users at the moment" /\ users.rows = <<>>)
      /\ users.shown = "table" =>
            /\ Len(users.rows) = Len(gpuData.user_resources)
            /\ \A i \in DOMAIN users.rows :
                  /\ Len(users.rows[i].sessions) = Len(gpuData.user_resources[i].sessions)
                  /\ \A k \in DOMAIN users.rows[i].sessions :
                        LET from == gpuData.user_resources[i].sessions[k].from IN
                        users.rows[i].sessions[k].origin =
                          IF from # "N/A" THEN <<from>> ELSE <<>>

C28_Witness ==
    /\ Shown
    /\ Len(Dashboard(gpuData).storage.disks) = 2
    /\ Dashboard(gpuData).storage.disks[2].title = "scratch"
    /\ ~Has(gpuData.system_resources, "storage_summary")
    /\ Dashboard(gpuData).storage.summary[1].used = TxtStr("0G")
    /\ Len(Rows) = 2
    /\ Rows[2].sessions[1].origin = <<>>
    /\ Rows[1].sessions[1].origin = <<"10.0.0.1">>

====
